---- MODULE Spec2Model ----
(***************************************************************************)
(* UltraSQL storage / transaction kernel.                                  *)
(*                                                                         *)
(* Spec   : transactions (transaction.Mgr) over the buffer pool            *)
(*          (BufferMgr + Clock policy), the log manager, the recovery      *)
(*          manager and the per-transaction concurrency manager, with      *)
(*          crash and reopen of the store.                                 *)
(* SpecLT : one LockTable shared by several client threads, with the       *)
(*          condition-variable wait of sLock / xLock.                      *)
(*                                                                         *)
(* Sizes are abstracted to units: every cell of a data page has the same   *)
(* size (Mgr.InsertCell always inserts an empty KV cell for a key), so a   *)
(* page holds PageCap cells; a log page holds LogCap records.              *)
(***************************************************************************)
EXTENDS Integers, Sequences, FiniteSets, TLC

\* ---------------------------------------------------------------- bounds
NumTx == 3
NumBlocks == 2
NumKeys == 1
NumVals == 2
NumBuffs == 2
PageCap == 4
LogCap == 5
MaxCrashes == 1
MaxSLocks == 2
NumThreads == 3
MaxActive == 2
MaxOps == 2
NumReaders == 3
MaxAppends == 6
MaxLogCalls == 3
NumPinners == 3
NumPoolBlocks == 4
MaxHeld == 1
MaxPinCalls == 4
LruBuffs == 1
NumLruBlocks == 4
MaxBufs == 5
MaxLruPins == 2
MaxLruCalls == 8
ClockCap == 3
MaxMgrSLocks == 3
MaxKeyLen == 2
MaxCellVal == 2
MaxPageKey == 2

\* kfile/cell.go
KEY_CELL == 1
KV_CELL == 2
INTEGER_TYPE == 1
STRING_TYPE == 2
BOOL_TYPE == 3
DATE_TYPE == 4
BYTES_TYPE == 5
FLAG_DELETED == 1
MaxClkPins == 2

\* ------------------------------------------------------ program constants
CHECKPOINT == 0
START == 1
COMMIT == 2
ROLLBACK == 3
UNIFIEDUPDATE == 5

Txs == 1..NumTx
LogBlk == 0
Blocks == 1..NumBlocks
AllBlocks == 0..NumBlocks
Keys == 1..NumKeys
Values == 1..NumVals
NoVal == 0
NoBuf == [none |-> TRUE]
NotFound == [none |-> TRUE]

VARIABLES
    disk,            \* [AllBlocks -> Seq(cell)]: bytes of each block on disk (cell heap by position)
    logSize,         \* number of blocks of the log file on disk
    bufferPool,      \* Clock.bufferPool: [AllBlocks -> Buffer or NoBuf]
    numAvailable,    \* BufferMgr.numAvailable
    latestLSN,       \* LogMgr.latestLSN
    latestSavedLSN,  \* LogMgr.latestSavedLSN
    txState,         \* [Txs -> state of the transaction object]
    locks,           \* concurrency.Mgr.locks: [Txs -> [Blocks -> "none" | "S" | "X"]]
    lTble,           \* concurrency.Mgr.lTble.locks: [Txs -> [Blocks -> Int]]
    buffers,         \* BufferList.buffers: [Txs -> SUBSET Blocks]
    crashes,         \* number of crashes so far
    hist,            \* history: [Txs -> [ins: logged inserts [blk, key, val, after] that returned
                     \*                    nil (after: the transactions committed by then),
                     \*                    ops: page operations called, epoch: crashes when begun,
                     \*                    recovered: Recover was called]]
    ltVal,           \* SpecLT: LockTable.locks entry of the block (0 = absent)
    thr,             \* SpecLT: [Threads -> state of a client thread]
    cmgr,            \* SpecCM: one concurrency.Mgr used by several goroutines
    cthr,            \* SpecCM: [CmThreads -> state of a goroutine]
    bp,              \* SpecBM: a BufferMgr with its Clock policy used by goroutines:
                     \*         bufferPool, numAvailable, ch (tokens in availableCh),
                     \*         th [Pinners -> state of a goroutine]
    lru,             \* SpecLRU: a BufferMgr with the built-in LRU list:
                     \*          pool (block -> buffer, 0 if absent), buf (the Buffer
                     \*          objects created so far), list (lruHead .. lruTail),
                     \*          numAvailable, recent (buffers by their latest Pin,
                     \*          newest first), calls, last (the last call)
    cret,            \* SpecLocks: the last call on the Mgr and its result
    spg,             \* SpecPage: a SlottedPage of serialized cells: page, before (the
                     \*           page as Compact found it, when Compact is the last call),
                     \*           op (the last call)
    kcell,           \* SpecCell: a Cell, its serialized bytes, the Cell read back
    clk,             \* SpecClock: a Clock policy: frames (the circular array; a frame
                     \*            is unused or holds a buffer with pins, the reference
                     \*            bit, and mapped: bufferPool still maps its block to
                     \*            it), hand (clockHand), ret (result of the last call)
    lg               \* SpecLog: history of the calls on the log manager: att the records
                     \*          passed to Append, appended the [lsn, rec] of the appends that
                     \*          returned nil, last the last call and its result

vars == <<disk, logSize, bufferPool, numAvailable, latestLSN, latestSavedLSN,
          txState, locks, lTble, buffers, crashes, hist, ltVal, thr, cmgr, cthr, cret, bp, lru, clk, kcell, spg, lg>>


\* The actions of one specification leave the state of the others alone.
Outside(own) ==
    /\ IF "tx" \in own THEN TRUE
       ELSE UNCHANGED <<disk, logSize, bufferPool, numAvailable, latestLSN,
                        latestSavedLSN, txState, locks, lTble, buffers, crashes, hist>>
    /\ IF "lt" \in own THEN TRUE ELSE UNCHANGED <<ltVal, thr>>
    /\ IF "cm" \in own THEN TRUE ELSE UNCHANGED <<cmgr, cthr>>
    /\ IF "locks" \in own THEN TRUE ELSE UNCHANGED cret
    /\ IF "bm" \in own THEN TRUE ELSE UNCHANGED bp
    /\ IF "lru" \in own THEN TRUE ELSE UNCHANGED lru
    /\ IF "clock" \in own THEN TRUE ELSE UNCHANGED clk
    /\ IF "cell" \in own THEN TRUE ELSE UNCHANGED kcell
    /\ IF "page" \in own THEN TRUE ELSE UNCHANGED spg
    /\ IF "log" \in own THEN TRUE ELSE UNCHANGED lg

\* ------------------------------------------------------------ slotted page
\* A page is [data, slots, used]: data is the cell heap by position (the bytes
\* that go to disk), slots the in-memory slot directory (positions in key
\* order), used the number of positions consumed through this page object
\* (pageSize - freeSpace, in cells).
NewSlottedPage == [data |-> <<>>, slots |-> <<>>, used |-> 0]

NewKVCell(key, by) == [key |-> key, val |-> NoVal, by |-> by]

CellAt(p, i) == p.data[p.slots[i]]

RECURSIVE SearchSlots(_, _, _, _)
SearchSlots(p, key, low, high) ==
    IF low > high THEN [found |-> FALSE, pos |-> low]
    ELSE LET mid == (low + high) \div 2
             k == CellAt(p, mid).key
         IN IF key = k THEN [found |-> TRUE, pos |-> mid]
            ELSE IF key < k THEN SearchSlots(p, key, low, mid - 1)
            ELSE SearchSlots(p, key, mid + 1, high)

FindSlotPosition(p, key) == SearchSlots(p, key, 1, Len(p.slots)).pos

FindCell(p, key) ==
    LET r == SearchSlots(p, key, 1, Len(p.slots))
    IN IF r.found THEN CellAt(p, r.pos) ELSE NotFound

PageFits(p, cap) == p.used < cap

\* SlottedPage.InsertCell when the cell fits: the cell is written below the
\* free-space pointer and its position is entered in the slot directory at the
\* index the binary search returns; an equal key is not rejected.
PageInsertCell(p, cell) ==
    LET pos == p.used + 1
        at == FindSlotPosition(p, cell.key)
    IN [data |-> IF pos <= Len(p.data) THEN [p.data EXCEPT ![pos] = cell]
                 ELSE Append(p.data, cell),
        slots |-> SubSeq(p.slots, 1, at - 1) \o <<pos>> \o SubSeq(p.slots, at, Len(p.slots)),
        used |-> pos]

\* ------------------------------------------------------------------ buffer
NewBuffer == [pins |-> 0, txnum |-> -1, lsn |-> -1, Dirty |-> FALSE,
              referenced |-> FALSE, inFrames |-> FALSE,
              contents |-> NewSlottedPage, dirtiedBy |-> {}]

IsBuf(b) == b # NoBuf

MarkModified(buf, txnum, lsn, who) ==
    [buf EXCEPT !.txnum = txnum,
                !.lsn = IF lsn > 0 THEN lsn ELSE @,
                !.Dirty = TRUE,
                !.dirtiedBy = @ \cup who]

\* ------------------------------------------------- sequential composition
\* Handlers are written as functions on a record s of the program state
\* (the variables above, plus err: the error result of the last call,
\* ret: its integer result, stop: the calling goroutine is blocked for ever
\* in cond.Wait and executes nothing more).
Cur == [disk |-> disk, logSize |-> logSize, bufferPool |-> bufferPool,
        numAvailable |-> numAvailable, latestLSN |-> latestLSN,
        latestSavedLSN |-> latestSavedLSN, locks |-> locks, lTble |-> lTble,
        buffers |-> buffers, stop |-> FALSE, err |-> FALSE, ret |-> 0]

Ok(s) == [s EXCEPT !.err = FALSE]
Fail(s) == [s EXCEPT !.err = TRUE]

\* ----------------------------------------------------------- Buffer, Clock
\* Buffer.Flush: writes only a dirty buffer; the slot directory is not part
\* of the bytes written.
BufferFlush(s, b) ==
    LET buf == s.bufferPool[b]
    IN IF buf.Dirty
       THEN [s EXCEPT !.disk[b] = buf.contents.data,
                      !.logSize = IF b = LogBlk THEN 1 ELSE @,
                      !.bufferPool[b] = [buf EXCEPT !.Dirty = FALSE, !.txnum = -1,
                                                    !.dirtiedBy = {}]]
       ELSE s

\* Buffer.FlushLSN
FlushLSN(s, b, lsn) ==
    IF lsn >= s.bufferPool[b].lsn THEN BufferFlush(s, b) ELSE s

\* Buffer.LogFlush: unconditional write, the dirty flag is left as it is.
LogFlush(s, b) ==
    [s EXCEPT !.disk[b] = s.bufferPool[b].contents.data,
              !.logSize = IF b = LogBlk THEN 1 ELSE @]

FramesUsed(s) ==
    Cardinality({b \in DOMAIN s.bufferPool : IsBuf(s.bufferPool[b]) /\ s.bufferPool[b].inFrames})

\* Clock.AllocateBufferForBlock for a block that is not resident: a new Buffer
\* is created; it takes an empty frame if there is one, and otherwise stays
\* outside the frame array (the eviction branch is never reached because the
\* buffer variable is never nil). assignToBlock reads the block's bytes; the
\* page object keeps its own (empty) slot directory and free-space pointer.
AllocateBufferForBlock(s, b) ==
    LET buf == [NewBuffer EXCEPT !.inFrames = (FramesUsed(s) < NumBuffs),
                                 !.contents = [NewSlottedPage EXCEPT !.data = s.disk[b]],
                                 !.referenced = TRUE,
                                 !.pins = 1]
    IN [s EXCEPT !.bufferPool[b] = buf]

\* Clock.Get on a resident block
ClockGet(s, b) ==
    [s EXCEPT !.bufferPool[b].referenced = TRUE, !.bufferPool[b].pins = @ + 1]

RECURSIVE FlushEach(_, _)
FlushEach(s, bs) ==
    IF bs = {} THEN s
    ELSE LET b == CHOOSE x \in bs : TRUE
         IN FlushEach(BufferFlush(s, b), bs \ {b})

\* Clock.FlushAll: walks the frame array only.
FlushAll(s, txnum) ==
    FlushEach(s, {b \in AllBlocks : /\ IsBuf(s.bufferPool[b])
                                    /\ s.bufferPool[b].inFrames
                                    /\ s.bufferPool[b].txnum = txnum})

\* --------------------------------------------------------------- BufferMgr
\* BufferMgr.Pin: a hit pins the resident buffer (numAvailable is not
\* touched); a miss allocates when numAvailable > 0; otherwise the call waits
\* MaxTime and returns the timeout error.
BmPin(s, b) ==
    IF IsBuf(s.bufferPool[b]) THEN Ok(ClockGet(s, b))
    ELSE IF s.numAvailable > 0
         THEN Ok([AllocateBufferForBlock(s, b) EXCEPT !.numAvailable = @ - 1])
         ELSE Fail(s)

\* BufferMgr.Unpin
BmUnpin(s, b) ==
    LET buf == s.bufferPool[b]
    IN IF buf.pins <= 0 THEN s
       ELSE [s EXCEPT !.bufferPool[b].pins = @ - 1,
                      !.numAvailable = IF buf.pins = 1 THEN @ + 1 ELSE @]

\* ------------------------------------------------------------------ LogMgr
LogRec(op, txnum, owner, blk, key, old, new) ==
    [op |-> op, txnum |-> txnum, owner |-> owner, blk |-> blk, key |-> key,
     old |-> old, new |-> new]

TxRec(op, txnum, owner) == LogRec(op, txnum, owner, 0, 0, NotFound, NotFound)

\* LogMgr.Append as it would be if it returned latestLSN + 1 without storing it.
LmAppendStale(s, rec) ==
    LET page == s.bufferPool[LogBlk].contents
        lsn == s.latestLSN + 1
        cell == [key |-> lsn, val |-> rec, by |-> 0]
    IN IF ~PageFits(page, LogCap) THEN [Fail(s) EXCEPT !.ret = -1]
       ELSE [Ok(s) EXCEPT !.bufferPool[LogBlk] =
                              MarkModified([@ EXCEPT !.contents = PageInsertCell(page, cell)],
                                           -1, lsn, {}),
                          !.ret = lsn]

\* LogMgr.Append: the record becomes the value of a KV cell whose key is
\* latestLSN + 1. A full page makes InsertCell fail with an error that is not
\* ErrCellTooLarge, so the append fails.
LmAppend(s, rec) ==
    LET page == s.bufferPool[LogBlk].contents
        lsn == s.latestLSN + 1
        cell == [key |-> lsn, val |-> rec, by |-> 0]
    IN IF ~PageFits(page, LogCap) THEN [Fail(s) EXCEPT !.ret = -1]
       ELSE [Ok(s) EXCEPT !.bufferPool[LogBlk] =
                              MarkModified([@ EXCEPT !.contents = PageInsertCell(page, cell)],
                                           -1, lsn, {}),
                          !.latestLSN = lsn,
                          !.ret = lsn]

\* LogMgr.Flush
LmFlush(s) ==
    [BmUnpin(LogFlush(s, LogBlk), LogBlk) EXCEPT !.latestSavedLSN = s.latestLSN]

\* LogMgr.Iterator: flush, then NewLogIterator pins the current block.
LmIterator(s) == BmPin(LmFlush(s), LogBlk)

Reverse(q) == [i \in 1..Len(q) |-> q[Len(q) + 1 - i]]

\* The records LogIterator.Next yields: the slot directory of the pinned
\* block from the highest slot down to slot 0 (the log never has a block
\* before block 0 here).
IteratorRecords(s) ==
    LET p == s.bufferPool[LogBlk].contents
    IN Reverse([i \in 1..Len(p.slots) |-> CellAt(p, i).val])

\* NewLogMgr
SetContents(s, b, page) == [s EXCEPT !.bufferPool[b].contents = page]

NewLogMgr(s) ==
    BufferFlush(SetContents(IF s.logSize = 0
                            THEN BmPin(AllocateBufferForBlock(s, LogBlk), LogBlk)
                            ELSE BmPin(s, LogBlk),
                            LogBlk, NewSlottedPage),
                LogBlk)

\* ------------------------------------------------- LockTable, concurrency
hasXLock(val) == val < 0

hasOtherLocks(val) == val # 0 /\ val # 1

\* LockTable.unlock on an entry val # 0: the new entry (0 = deleted) and
\* whether cond.Broadcast is called.
unlockVal(val) == IF val > 1 THEN val - 1 ELSE 0

unlockBroadcasts(val) == ~(val > 1)

\* Every transaction number is the zero value of Mgr.txNum: NewTransaction
\* stores the counter in nextTxNum and never assigns txNum.
TxNum(t) == 0

\* NewConcurrencyMgr: a ledger and a LockTable of its own.
NewConcurrencyMgrLocks == [b \in Blocks |-> "none"]

NewLockTable == [b \in Blocks |-> 0]

\* LockTable.sLock called by the only goroutine that uses the table: with an
\* exclusive entry the caller waits on the condition variable and nobody can
\* wake it.
LtSLock(s, t, b) ==
    IF hasXLock(s.lTble[t][b]) THEN [s EXCEPT !.stop = TRUE]
    ELSE Ok([s EXCEPT !.lTble[t][b] = @ + 1])

\* LockTable.xLock, same situation.
LtXLock(s, t, b) ==
    IF hasOtherLocks(s.lTble[t][b]) THEN [s EXCEPT !.stop = TRUE]
    ELSE Ok([s EXCEPT !.lTble[t][b] = -1])

\* concurrency.Mgr.SLock
\* The ledger entry written after a LockTable call that returned.
Ledger(s, t, b, mode) == IF s.stop THEN s ELSE [s EXCEPT !.locks[t][b] = mode]

CmSLock(s, t, b) ==
    IF s.locks[t][b] = "X" THEN Fail(s)
    ELSE Ledger(LtSLock(s, t, b), t, b, "S")

\* concurrency.Mgr.XLock, step 2: upgrade
Upgrade(s, t, b) ==
    IF s.stop THEN s ELSE Ledger(LtXLock(s, t, b), t, b, "X")

\* concurrency.Mgr.XLock
CmXLock(s, t, b) ==
    IF s.locks[t][b] = "X" THEN Fail(s)
    ELSE IF s.locks[t][b] = "none"
         THEN Upgrade(Ledger(LtSLock(s, t, b), t, b, "S"), t, b)
         ELSE Upgrade(s, t, b)

\* concurrency.Mgr.Release: unlock every ledger entry, clear the ledger,
\* report an error if an unlock found no entry in the table.
CmRelease(s, t) ==
    LET held == {b \in Blocks : s.locks[t][b] # "none"}
    IN [s EXCEPT !.lTble[t] = [b \in Blocks |-> IF b \in held /\ @[b] # 0
                                                 THEN unlockVal(@[b]) ELSE @[b]],
                 !.locks[t] = NewConcurrencyMgrLocks,
                 !.err = \E b \in held : s.lTble[t][b] = 0]

\* -------------------------------------------------------------- BufferList
Listed(s, t, b) == IF s.err THEN s ELSE [s EXCEPT !.buffers[t] = @ \cup {b}]

BlPin(s, t, b) ==
    IF b \in s.buffers[t] THEN Ok(s) ELSE Listed(BmPin(s, b), t, b)

\* BufferList.Unpin as it would be if unpinning the last page also gave the
\* transaction's locks back.
BlUnpinReleasing(s, t, b) ==
    IF b \notin s.buffers[t] THEN Ok(s)
    ELSE Ok([CmRelease(BmUnpin(s, b), t) EXCEPT !.buffers[t] = @ \ {b}])

BlUnpin(s, t, b) ==
    IF b \notin s.buffers[t] THEN Ok(s)
    ELSE Ok([BmUnpin(s, b) EXCEPT !.buffers[t] = @ \ {b}])

RECURSIVE UnpinEach(_, _)
UnpinEach(s, bs) ==
    IF bs = {} THEN s
    ELSE LET b == CHOOSE x \in bs : TRUE
         IN UnpinEach(BmUnpin(s, b), bs \ {b})

UnpinAll(s, t) == [UnpinEach(s, s.buffers[t]) EXCEPT !.buffers[t] = {}]

\* ------------------------------------------------- transaction and recovery
\* RecoveryMgr.SetCellValue: FindCell returns a copy of the cell; the value is
\* set on the copy only, the old and the new image go to the log.
SetCellValue(s, t, b, key, val) ==
    LET cell == FindCell(s.bufferPool[b].contents, key)
    IN IF cell = NotFound THEN [Fail(s) EXCEPT !.ret = -1]
       ELSE Ok(LmAppend(s, LogRec(UNIFIEDUPDATE, TxNum(t), t, b, key,
                                  cell, [cell EXCEPT !.val = val])))

\* transaction.Mgr.InsertCell, after the pin: insert an empty KV cell for the
\* key, mark the buffer modified, log the value if asked to.
PutCell(s, t, b, key) ==
    [s EXCEPT !.bufferPool[b] =
         MarkModified([@ EXCEPT !.contents = PageInsertCell(@, NewKVCell(key, t))],
                      TxNum(t), -1, {t})]

InsertPinned(s, t, b, key, val, okToLog) ==
    IF s.err THEN s
    ELSE IF ~PageFits(s.bufferPool[b].contents, PageCap) THEN Fail(s)
    ELSE IF okToLog THEN SetCellValue(PutCell(s, t, b, key), t, b, key, val)
    ELSE Ok(PutCell(s, t, b, key))

InsertLocked(s, t, b, key, val, okToLog) ==
    IF s.stop THEN s ELSE InsertPinned(BlPin(s, t, b), t, b, key, val, okToLog)

\* transaction.Mgr.InsertCell (the result of XLock is not looked at)
InsertCell(s, t, b, key, val, okToLog) ==
    InsertLocked(CmXLock(s, t, b), t, b, key, val, okToLog)

\* UnifiedUpdateRecord.Undo, the deferred UnPin
UndoDone(s, t, rec) == IF s.stop THEN s ELSE BlUnpin(s, t, rec.blk)

UndoPinned(s, t, rec) ==
    IF s.err THEN s
    ELSE UndoDone(InsertCell(s, t, rec.blk, rec.key, rec.old, FALSE), t, rec)

\* Undo as it would be if it put the record's new image into the page.
UndoRedoing(s, t, rec) ==
    IF rec.op # UNIFIEDUPDATE \/ BlPin(s, t, rec.blk).err THEN s
    ELSE UndoDone([BlPin(s, t, rec.blk) EXCEPT
                       !.bufferPool[rec.blk].contents = PageInsertCell(@, rec.new)],
                  t, rec)

\* Ilog_record.Undo: only a unified update record does something.
Undo(s, t, rec) ==
    IF rec.op # UNIFIEDUPDATE THEN s
    ELSE UndoPinned(BlPin(s, t, rec.blk), t, rec)

\* RecoveryMgr.doRollback, the loop over the iterator from record i on
RECURSIVE RollbackScan(_, _, _, _)
RollbackScan(s, t, recs, i) ==
    IF i > Len(recs) \/ s.stop THEN s
    ELSE IF recs[i].txnum = TxNum(t)
         THEN IF recs[i].op = START THEN s
              ELSE RollbackScan(Undo(s, t, recs[i]), t, recs, i + 1)
         ELSE RollbackScan(s, t, recs, i + 1)

RollbackFrom(s, t) ==
    IF s.err THEN s ELSE RollbackScan(s, t, IteratorRecords(s), 1)

doRollback(s, t) == RollbackFrom(LmIterator(s), t)

\* RecoveryMgr.doRecover, the loop over the iterator from record i on
RECURSIVE RecoverScan(_, _, _, _, _)
RecoverScan(s, t, recs, i, finishedTxs) ==
    IF i > Len(recs) \/ s.stop THEN s
    ELSE IF recs[i].op = CHECKPOINT THEN s
    ELSE IF recs[i].op \in {COMMIT, ROLLBACK}
         THEN RecoverScan(s, t, recs, i + 1, finishedTxs \cup {recs[i].txnum})
    ELSE IF recs[i].txnum \notin finishedTxs
         THEN RecoverScan(Undo(s, t, recs[i]), t, recs, i + 1, finishedTxs)
    ELSE RecoverScan(s, t, recs, i + 1, finishedTxs)

RecoverFrom(s, t) ==
    IF s.err THEN s ELSE RecoverScan(s, t, IteratorRecords(s), 1, {})

doRecover(s, t) == RecoverFrom(LmIterator(s), t)

\* The end of RecoveryMgr.Commit / Rollback / Recover: write the record, force
\* the log buffer up to the LSN returned (-1 when the append failed).
Force(s) == FlushLSN(s, LogBlk, s.ret)

WriteAndForce(s, rec) == Force(LmAppend(s, rec))

\* NewRecoveryMgr: the START record (the result of the write is dropped)
NewRecoveryMgr(s, t) == Ok(LmAppend(s, TxRec(START, TxNum(t), t)))

\* RecoveryMgr.Commit
RmCommit(s, t) == WriteAndForce(FlushAll(s, TxNum(t)), TxRec(COMMIT, TxNum(t), t))

\* RecoveryMgr.Rollback
EndRollback(s, t) ==
    IF s.stop THEN s
    ELSE WriteAndForce(FlushAll(s, TxNum(t)), TxRec(ROLLBACK, TxNum(t), t))

RmRollback(s, t) == EndRollback(doRollback(s, t), t)

\* RecoveryMgr.Recover
EndRecover(s, t) ==
    IF s.stop THEN s
    ELSE WriteAndForce(FlushAll(s, TxNum(t)), TxRec(CHECKPOINT, -1, t))

RmRecover(s, t) == EndRecover(doRecover(s, t), t)

\* The error the recovery manager returns to transaction.Mgr: the failure of
\* its record write.
RmFailed(s) == s.err

\* transaction.Mgr.Commit / Rollback after the recovery manager's step
Released(s, t) == IF s.err THEN s ELSE UnpinAll(s, t)

Finalize(s, t) ==
    IF s.stop \/ RmFailed(s) THEN s ELSE Released(CmRelease(s, t), t)

MgrCommit(s, t) == Finalize(RmCommit(s, t), t)

MgrRollback(s, t) == Finalize(RmRollback(s, t), t)

\* transaction.Mgr.Recover
MgrRecover(s, t) == RmRecover(FlushAll(s, TxNum(t)), t)

\* transaction.Mgr.FindCell (the block is pinned by the caller)
MgrFindCell(s, t, b) == CmSLock(s, t, b)

\* ---------------------------------------------------------------- actions
Store(s) ==
    /\ disk' = s.disk
    /\ logSize' = s.logSize
    /\ bufferPool' = s.bufferPool
    /\ numAvailable' = s.numAvailable
    /\ latestLSN' = s.latestLSN
    /\ latestSavedLSN' = s.latestSavedLSN
    /\ locks' = s.locks
    /\ lTble' = s.lTble
    /\ buffers' = s.buffers

\* The store after open(): empty pool, then NewLogMgr.
Open(d, size) ==
    NewLogMgr([disk |-> d, logSize |-> size,
               bufferPool |-> [b \in AllBlocks |-> NoBuf],
               numAvailable |-> NumBuffs, latestLSN |-> 0, latestSavedLSN |-> 0,
               locks |-> [t \in Txs |-> NewConcurrencyMgrLocks],
               lTble |-> [t \in Txs |-> NewLockTable],
               buffers |-> [t \in Txs |-> {}],
               stop |-> FALSE, err |-> FALSE, ret |-> 0])

Active(t) == txState[t] = "active"

\* The clients call at most MaxOps page operations in all, and at most
\* MaxActive transactions are open at a time.
RECURSIVE SumOps(_, _)
SumOps(h, n) == IF n = 0 THEN 0 ELSE h[n].ops + SumOps(h, n - 1)

MayCall(t) == Active(t) /\ SumOps(hist, NumTx) < MaxOps

Counted(h, t) == [h EXCEPT ![t].ops = @ + 1]

\* One call of an operation by transaction t: s is the state the handler
\* leaves, done the status of the transaction if it returns nil. A client
\* whose Commit or Rollback returned an error gives the transaction up.
Do(t, s, done, h) ==
    /\ Store(s)
    /\ txState' = [txState EXCEPT ![t] = IF s.stop THEN "hung"
                                          ELSE IF ~s.err THEN done
                                          ELSE IF done = "active" THEN @
                                          ELSE "failed"]
    /\ hist' = h
    /\ UNCHANGED crashes
    /\ Outside({"tx"})

\* NewTransaction
Begin(t) ==
    /\ txState[t] = "new"
    /\ IF t = 1 THEN TRUE ELSE txState[t - 1] # "new"
    /\ Cardinality({u \in Txs : txState[u] \in {"active", "hung", "failed"}}) < MaxActive
    /\ Do(t, NewRecoveryMgr(Cur, t), "active",
          [hist EXCEPT ![t].epoch = crashes])

\* transaction.Mgr.Pin
Pin(t, b) ==
    /\ MayCall(t)
    /\ Do(t, BlPin(Cur, t, b), "active", Counted(hist, t))

\* transaction.Mgr.UnPin
UnPin(t, b) ==
    /\ MayCall(t)
    /\ b \in buffers[t]
    /\ Do(t, BlUnpin(Cur, t, b), "active", Counted(hist, t))

\* transaction.Mgr.FindCell on a block the transaction has pinned
FindCellOp(t, b, key) ==
    /\ MayCall(t)
    /\ b \in buffers[t]
    /\ lTble[t][b] < MaxSLocks
    /\ Do(t, MgrFindCell(Cur, t, b), "active", Counted(hist, t))

Inserted(s, t, b, key, val) ==
    IF s.stop \/ s.err THEN Counted(hist, t)
    ELSE [Counted(hist, t) EXCEPT ![t].ins =
              Append(@, [blk |-> b, key |-> key, val |-> val,
                         after |-> {u \in Txs : txState[u] = "committed"}])]

InsertDone(s, t, b, key, val) ==
    Do(t, s, "active", Inserted(s, t, b, key, val))

\* transaction.Mgr.InsertCell with logging
InsertCellOp(t, b, key, val) ==
    /\ MayCall(t)
    /\ InsertDone(InsertCell(Cur, t, b, key, val, TRUE), t, b, key, val)

\* transaction.Mgr.Commit
Commit(t) ==
    /\ Active(t)
    /\ Do(t, MgrCommit(Cur, t), "committed", hist)

\* transaction.Mgr.Rollback
Rollback(t) ==
    /\ Active(t)
    /\ Do(t, MgrRollback(Cur, t), "rolledback", hist)

\* transaction.Mgr.Recover, called after startup by a fresh transaction
Recover(t) ==
    /\ Active(t)
    /\ hist[t].ops = 0 /\ ~hist[t].recovered
    /\ \A u \in Txs \ {t} : txState[u] \in {"new", "lost"} \/ hist[u].epoch < crashes
    /\ Do(t, MgrRecover(Cur, t), "active",
          [hist EXCEPT ![t].recovered = TRUE])

\* The process dies (memory is lost, the files stay) and the store is opened
\* again.
Crash ==
    /\ crashes < MaxCrashes
    /\ \E t \in Txs : txState[t] # "new"
    /\ Store(Open(disk, logSize))
    /\ txState' = [t \in Txs |-> IF txState[t] \in {"active", "hung", "failed"} THEN "lost"
                                 ELSE txState[t]]
    /\ crashes' = crashes + 1
    /\ UNCHANGED hist
    /\ Outside({"tx"})

\* ------------------------------------------------ one shared LockTable
\* A client goroutine: pc is "idle", or "sWait" / "xWait" while it sleeps in
\* cond.Wait inside sLock / xLock; held is what it was granted; woken: a
\* Broadcast has reached it since it went to sleep; expired: time.Now() is
\* after its deadline; xheld: the block has been exclusively locked ever since
\* its call; overdue: the deadline passed while xheld; res: how its last call
\* returned.
Threads == 1..NumThreads

Idle == [pc |-> "idle", held |-> "none", woken |-> FALSE, expired |-> FALSE,
         xheld |-> FALSE, overdue |-> FALSE, res |-> "none"]

Sleep(th, pc) ==
    thr' = [thr EXCEPT ![th] = [@ EXCEPT !.pc = pc, !.woken = FALSE, !.expired = FALSE,
                                         !.xheld = hasXLock(ltVal), !.overdue = FALSE,
                                         !.res = "none"]]

Return(th, held, res) ==
    thr' = [thr EXCEPT ![th] = [@ EXCEPT !.pc = "idle", !.held = held, !.woken = FALSE,
                                         !.expired = FALSE, !.xheld = FALSE, !.res = res,
                                         !.overdue = @ /\ thr[th].pc # "idle"]]

\* LockTable.sLock, up to the first cond.Wait or the return
sLock(th) ==
    /\ thr[th].pc = "idle" /\ thr[th].held = "none"
    /\ IF hasXLock(ltVal)
       THEN Sleep(th, "sWait") /\ UNCHANGED ltVal
       ELSE ltVal' = ltVal + 1 /\ Return(th, "S", "granted")
    /\ Outside({"lt"})

\* LockTable.xLock, up to the first cond.Wait or the return
xLock(th) ==
    /\ thr[th].pc = "idle" /\ thr[th].held \in {"none", "S"}
    /\ IF hasOtherLocks(ltVal)
       THEN Sleep(th, "xWait") /\ UNCHANGED ltVal
       ELSE ltVal' = -1 /\ Return(th, "X", "granted")
    /\ Outside({"lt"})

Blocked(th) ==
    IF thr[th].pc = "sWait" THEN hasXLock(ltVal) ELSE hasOtherLocks(ltVal)

\* A goroutine that Broadcast woke up goes round its loop: the condition is
\* tested again, then the deadline, and it sleeps again, returns the timeout
\* error, or takes the lock.
Resume(th) ==
    /\ thr[th].pc \in {"sWait", "xWait"} /\ thr[th].woken
    /\ IF Blocked(th)
       THEN /\ IF thr[th].expired
               THEN Return(th, thr[th].held, "timeout")
               ELSE thr' = [thr EXCEPT ![th].woken = FALSE]
            /\ UNCHANGED ltVal
       ELSE IF thr[th].pc = "sWait"
            THEN ltVal' = ltVal + 1 /\ Return(th, "S", "granted")
            ELSE ltVal' = -1 /\ Return(th, "X", "granted")
    /\ Outside({"lt"})

\* MaxWaitTime elapses for a sleeping goroutine.
Tick(th) ==
    /\ thr[th].pc \in {"sWait", "xWait"} /\ ~thr[th].expired
    /\ thr' = [thr EXCEPT ![th].expired = TRUE, ![th].overdue = thr[th].xheld]
    /\ UNCHANGED ltVal
    /\ Outside({"lt"})

\* LockTable.unlock by a goroutine that was granted a lock
unlock(th) ==
    /\ thr[th].pc = "idle" /\ thr[th].held # "none"
    /\ ltVal' = IF ltVal = 0 THEN 0 ELSE unlockVal(ltVal)
    /\ thr' = [o \in Threads |->
                 IF o = th
                 THEN [thr[o] EXCEPT !.held = "none",
                                     !.res = IF ltVal = 0 THEN "error" ELSE "unlocked"]
                 ELSE [thr[o] EXCEPT !.woken = @ \/ (thr[o].pc # "idle" /\ ltVal # 0
                                                       /\ unlockBroadcasts(ltVal)),
                                     !.xheld = @ /\ ~hasXLock(ltVal)]]
    /\ Outside({"lt"})

\* ------------------------------- one concurrency.Mgr used by goroutines
\* NumReaders reader goroutines (SLock, hold, Release) and one writer (XLock,
\* hold, Release) call the same Mgr for the same block. Mgr.SLock, Mgr.XLock
\* and Mgr.Release hold the Mgr's mutex from entry to return, also while the
\* LockTable call inside sleeps in cond.Wait.
CmThreads == 1..(NumReaders + 1)

Writer == NumReaders + 1

TheBlk == CHOOSE b \in Blocks : TRUE

\* the Mgr as the state record of the handlers (it is "transaction" 1)
AsMgr == [locks |-> <<cmgr.locks>>, lTble |-> <<cmgr.lTble>>, stop |-> FALSE,
          err |-> FALSE]

MgrAfter(s, mu) == [mu |-> mu, locks |-> s.locks[1], lTble |-> s.lTble[1]]

\* cM.mu.Lock() at the entry of SLock / XLock / Release
CmLock(th) ==
    /\ cthr[th].pc \in {"start", "hold"}
    /\ cmgr.mu = 0
    /\ cmgr' = [cmgr EXCEPT !.mu = th]
    /\ cthr' = [cthr EXCEPT ![th].pc = IF @ = "start" THEN "acquire" ELSE "release"]
    /\ Outside({"cm"})

\* The call has returned (the deferred cM.mu.Unlock() has run) or sleeps in
\* cond.Wait with the mutex held: the only Broadcast is in LockTable.unlock,
\* which only Mgr.Release calls, under the same mutex.
CmReturn(th, s) ==
    /\ cmgr' = MgrAfter(s, IF s.stop THEN th ELSE 0)
    /\ cthr' = [cthr EXCEPT ![th].pc = IF s.stop THEN "wait"
                                        ELSE IF s.err THEN "failed"
                                        ELSE IF @ = "acquire" THEN "hold" ELSE "done"]
    /\ Outside({"cm"})

\* the body of Mgr.SLock (readers) or Mgr.XLock (writer)
CmAcquire(th) ==
    /\ cthr[th].pc = "acquire"
    /\ CmReturn(th, IF th = Writer THEN CmXLock(AsMgr, 1, TheBlk)
                    ELSE CmSLock(AsMgr, 1, TheBlk))

\* the body of Mgr.Release
CmReleaseOp(th) ==
    /\ cthr[th].pc = "release"
    /\ CmReturn(th, CmRelease(AsMgr, 1))

\* ------------------------------------------ one client of its own Mgr
\* A transaction calls SLock, XLock and Release of its concurrency.Mgr in any
\* order. A call that sleeps in cond.Wait keeps cM.mu, and nothing is called
\* after it.
MgrCalled(op, b, s) ==
    /\ cmgr.mu = 0
    /\ cmgr' = MgrAfter(s, IF s.stop THEN 1 ELSE 0)
    /\ cret' = [op |-> op, blk |-> b,
                res |-> IF s.stop THEN "blocked" ELSE IF s.err THEN "error" ELSE "nil"]
    /\ UNCHANGED cthr
    /\ Outside({"cm", "locks"})

SLockOp(b) ==
    /\ cmgr.lTble[b] < MaxMgrSLocks
    /\ MgrCalled("SLock", b, CmSLock(AsMgr, 1, b))

XLockOp(b) ==
    /\ cmgr.lTble[b] < MaxMgrSLocks
    /\ MgrCalled("XLock", b, CmXLock(AsMgr, 1, b))

ReleaseOp ==
    /\ cret.op # "none"
    /\ MgrCalled("Release", TheBlk, CmRelease(AsMgr, 1))

\* -------------------------------------------------------------- kfile.Cell
\* A Cell is [flags, key, valueType, value, pageId]; keySize and valueSize are
\* the lengths of key and value. Bytes are numbers 0..255.
RECURSIVE BigEndian(_, _)
BigEndian(n, w) == IF w = 0 THEN <<>> ELSE Append(BigEndian(n \div 256, w - 1), n % 256)

RECURSIVE Uint(_)
Uint(b) == IF b = <<>> THEN 0 ELSE Uint(SubSeq(b, 1, Len(b) - 1)) * 256 + b[Len(b)]

\* Cell.ToBytes: the value size, the value type and the value are written
\* only when flags is exactly KV_CELL; every other cell gets its pageId.
ToBytes(c) ==
    <<c.flags>> \o BigEndian(Len(c.key), 4)
    \o (IF c.flags = KV_CELL THEN BigEndian(Len(c.value), 4) \o <<c.valueType>> ELSE <<>>)
    \o c.key
    \o (IF c.flags = KV_CELL THEN c.value ELSE BigEndian(c.pageId, 8))

\* CellFromBytes: NotFound stands for (nil, err). binary.Read fails on a short
\* read; bytes.Buffer.Read fails only when bytes are asked of an empty buffer
\* and otherwise fills what it has.
CellFromBytes(data) ==
    LET flags == data[1]
        kv == flags = KV_CELL
        hdr == IF kv THEN 10 ELSE 5
    IN IF Len(data) < hdr THEN NotFound
       ELSE LET keySize == Uint(SubSeq(data, 2, 5))
                valueSize == IF kv THEN Uint(SubSeq(data, 6, 9)) ELSE 0
                rest == SubSeq(data, hdr + 1, Len(data))
                tail == SubSeq(rest, keySize + 1, Len(rest))
            IN IF keySize > 0 /\ rest = <<>> THEN NotFound
               ELSE IF kv /\ valueSize > 0 /\ tail = <<>> THEN NotFound
               ELSE IF ~kv /\ Len(tail) < 8 THEN NotFound
               ELSE [flags |-> flags,
                     key |-> [i \in 1..keySize |-> IF i <= Len(rest) THEN rest[i] ELSE 0],
                     valueType |-> IF kv THEN data[10] ELSE 0,
                     value |-> [i \in 1..valueSize |-> IF i <= Len(tail) THEN tail[i] ELSE 0],
                     pageId |-> IF kv THEN 0 ELSE Uint(SubSeq(tail, 1, 8))]

\* NewKeyCell(key, childPageId)
NewKeyCellOp(key, childPageId) ==
    /\ kcell.c = NotFound
    /\ kcell' = [kcell EXCEPT !.c = [flags |-> KEY_CELL, key |-> key, valueType |-> 0,
                                   value |-> <<>>, pageId |-> childPageId]]
    /\ Outside({"cell"})

\* NewKVCell(key)
NewKVCellOp(key) ==
    /\ kcell.c = NotFound
    /\ kcell' = [kcell EXCEPT !.c = [flags |-> KV_CELL, key |-> key, valueType |-> 0,
                                   value |-> <<>>, pageId |-> 0]]
    /\ Outside({"cell"})

\* Cell.SetValue with an int, a string of n letters, a bool, a time or n bytes;
\* a cell whose flags are not exactly KV_CELL is refused.
SetValueOp(type, n) ==
    /\ kcell.c # NotFound /\ kcell.data = <<>>
    /\ kcell.c.valueType = 0
    /\ kcell' = IF kcell.c.flags # KV_CELL THEN kcell
               ELSE [kcell EXCEPT !.c.valueType = type,
                                 !.c.value = IF type = INTEGER_TYPE THEN BigEndian(n, 4)
                                             ELSE IF type = STRING_TYPE THEN [i \in 1..n |-> 97]
                                             ELSE IF type = BOOL_TYPE THEN <<n % 2>>
                                             ELSE IF type = DATE_TYPE THEN BigEndian(n, 8)
                                             ELSE [i \in 1..n |-> i]]
    /\ Outside({"cell"})

\* Cell.MarkDeleted
MarkDeletedOp ==
    /\ kcell.c # NotFound /\ kcell.data = <<>>
    /\ kcell' = [kcell EXCEPT !.c.flags = IF @ % 2 = 1 THEN @ ELSE @ + FLAG_DELETED]
    /\ Outside({"cell"})

ToBytesOp ==
    /\ kcell.c # NotFound /\ kcell.data = <<>>
    /\ kcell' = [kcell EXCEPT !.data = ToBytes(kcell.c)]
    /\ Outside({"cell"})

CellFromBytesOp ==
    /\ kcell.data # <<>> /\ ~kcell.read
    /\ kcell' = [kcell EXCEPT !.back = CellFromBytes(kcell.data), !.read = TRUE]
    /\ Outside({"cell"})

\* ------------------------------------------ a SlottedPage of kfile cells
\* The heap of the page holds [key, bytes]: bytes is what Cell.ToBytes wrote,
\* and GetCell is CellFromBytes of it. The keys of this page are one byte long,
\* so bytes.Compare orders them as the numbers Uint(key); key is that number.

\* The loop of SlottedPage.Compact from slot i on: every cell of the slot
\* directory is read back and, unless IsDeleted (flags & FLAG_DELETED != 0),
\* inserted into newPage. NotFound stands for the error return.
RECURSIVE Compact(_, _, _)
Compact(p, i, newPage) ==
    IF i > Len(p.slots) THEN newPage
    ELSE LET cell == CellFromBytes(CellAt(p, i).bytes)
         IN IF cell = NotFound THEN NotFound
            ELSE IF (cell.flags \div FLAG_DELETED) % 2 = 1 THEN Compact(p, i + 1, newPage)
            ELSE IF ~PageFits(newPage, PageCap) THEN NotFound
            ELSE Compact(p, i + 1, PageInsertCell(newPage, [key |-> Uint(cell.key),
                                                            bytes |-> ToBytes(cell)]))

\* page.InsertCell(cell), the cell made by NewKeyCell(key, n) or by NewKVCell(key)
\* and SetValue(n); a page without room returns an error.
PgInsertCell(kind, key, n) ==
    /\ LET cell == [flags |-> kind, key |-> <<key>>,
                    valueType |-> IF kind = KV_CELL THEN INTEGER_TYPE ELSE 0,
                    value |-> IF kind = KV_CELL THEN BigEndian(n, 4) ELSE <<>>,
                    pageId |-> IF kind = KV_CELL THEN 0 ELSE n]
       IN spg' = [spg EXCEPT !.page = IF PageFits(@, PageCap)
                                      THEN PageInsertCell(@, [key |-> Uint(cell.key),
                                                              bytes |-> ToBytes(cell)])
                                      ELSE @,
                             !.before = NewSlottedPage, !.op = "insert"]
    /\ Outside({"page"})

\* page.DeleteCell(slot): MarkDeleted acts on the copy GetCell returned; the
\* slot is taken out of the directory.
PgDeleteCell(slot) ==
    /\ spg' = [spg EXCEPT !.page.slots = IF slot > Len(@) THEN @
                                         ELSE SubSeq(@, 1, slot - 1) \o SubSeq(@, slot + 1, Len(@)),
                         !.before = NewSlottedPage, !.op = "delete"]
    /\ Outside({"page"})

\* page.Compact()
PgCompact ==
    /\ LET newPage == Compact(spg.page, 1, NewSlottedPage)
       IN spg' = [page |-> IF newPage = NotFound THEN spg.page ELSE newPage,
                  before |-> spg.page, op |-> "compact"]
    /\ Outside({"page"})

\* ------------------------------------------- clients of the log manager
\* The k-th call of Append passes the record k. Append runs under lm.mu.
LogAppend ==
    /\ Len(lg.att) < MaxAppends
    /\ Store(LmAppend(Cur, Len(lg.att) + 1))
    /\ lg' = [lg EXCEPT
                 !.att = Append(@, Len(lg.att) + 1),
                 !.appended = IF LmAppend(Cur, Len(lg.att) + 1).err THEN @
                              ELSE Append(@, [lsn |-> LmAppend(Cur, Len(lg.att) + 1).ret,
                                              rec |-> Len(lg.att) + 1]),
                 !.last = [op |-> "append", ok |-> ~LmAppend(Cur, Len(lg.att) + 1).err]]
    /\ UNCHANGED <<txState, crashes, hist>>
    /\ Outside({"tx", "log"})

\* The other calls are counted: at most MaxLogCalls of them.
LogCalled(last) ==
    /\ lg.calls < MaxLogCalls
    /\ lg' = [lg EXCEPT !.calls = @ + 1, !.last = last,
                        !.flushing = @ \/ last.op = "flushing"]
    /\ UNCHANGED <<txState, crashes, hist>>
    /\ Outside({"tx", "log"})

\* lm.Buffer().FlushLSN(lsn) for an LSN that an append returned
LogFlushLSN(i) ==
    /\ i <= Len(lg.appended)
    /\ Store(FlushLSN(Cur, LogBlk, lg.appended[i].lsn))
    /\ LogCalled([op |-> "flushlsn", lsn |-> lg.appended[i].lsn])

\* LogMgr.Checkpoint: Flush
LogCheckpoint ==
    /\ Store(LmFlush(Cur))
    /\ LogCalled([op |-> "flush"])

\* LogMgr.Iterator, then Next until HasNext is false
LogIterate ==
    /\ Store(LmIterator(Cur))
    /\ LogCalled([op |-> "iterate", ok |-> ~LmIterator(Cur).err,
                  recs |-> IteratorRecords(LmIterator(Cur))])

\* LogMgr.Iterator called by another goroutine. Iterator and the Flush it
\* calls do not take lm.mu, so an Append can run between the statements of
\* Flush: first the page is written and the buffer unpinned, ...
IterFlushWrite ==
    /\ ~lg.flushing
    /\ Store(BmUnpin(LogFlush(Cur, LogBlk), LogBlk))
    /\ LogCalled([op |-> "flushing"])

\* ... then latestSavedLSN is set to the latestLSN of that moment, and
\* NewLogIterator pins the block.
IterFlushSave ==
    /\ lg.flushing
    /\ Store(BmPin([Cur EXCEPT !.latestSavedLSN = latestLSN], LogBlk))
    /\ lg' = [lg EXCEPT !.flushing = FALSE, !.last = [op |-> "flushed"]]
    /\ UNCHANGED <<txState, crashes, hist>>
    /\ Outside({"tx", "log"})

\* ---------------------------------------------- goroutines on a BufferMgr
\* NewBufferMgr(fm, NumBuffs, InitClock(NumBuffs, fm)) used by NumPinners
\* goroutines that pin and unpin blocks of PoolBlocks. A goroutine: pc is
\* "idle", "try" (in the loop of Pin, about to take bm.mu) or "wait" (in the
\* select); blk is the block asked for; held the blocks it has pinned; res
\* the result of its last Pin; waited: its Pin has been in the select;
\* freed: a buffer was unpinned to pin count zero while it was in the select.
\* taken: since the last unpin to pin count zero, a Pin that was not in the
\* select at that unpin has allocated a buffer.
Pinners == 1..NumPinners

PoolBlocks == 1..NumPoolBlocks

PoolCur ==
    [disk |-> [b \in PoolBlocks |-> <<>>], bufferPool |-> bp.bufferPool,
     numAvailable |-> bp.numAvailable, err |-> FALSE]

PoolStore(s, ch, th, taken) ==
    /\ bp' = [bp EXCEPT !.bufferPool = s.bufferPool, !.numAvailable = s.numAvailable,
                        !.ch = ch, !.th = th, !.taken = taken]
    /\ Outside({"bm"})

\* BufferMgr.Pin is called: startTime := time.Now(). The goroutines call Pin
\* at most MaxPinCalls times in all.
BmCall(th, b) ==
    /\ bp.th[th].pc = "idle"
    /\ b \notin bp.th[th].held
    /\ Cardinality(bp.th[th].held) < MaxHeld
    /\ bp.calls < MaxPinCalls
    /\ bp' = [bp EXCEPT !.calls = @ + 1,
                        !.th[th] = [@ EXCEPT !.pc = "try", !.blk = b, !.res = "none",
                                             !.waited = FALSE, !.freed = FALSE]]
    /\ Outside({"bm"})

\* One round of the loop of BufferMgr.Pin under bm.mu: a hit or an allocation
\* returns the buffer; otherwise the call returns the timeout error if MaxTime
\* has passed (it can only have passed after a wait) or goes into the select.
BmTry(th) ==
    /\ bp.th[th].pc = "try"
    /\ IF ~BmPin(PoolCur, bp.th[th].blk).err
       THEN PoolStore(BmPin(PoolCur, bp.th[th].blk), bp.ch,
                      [bp.th EXCEPT ![th] = [@ EXCEPT !.pc = "idle", !.res = "ok",
                                                      !.held = @ \cup {bp.th[th].blk}]],
                      bp.taken \/ (~bp.th[th].freed /\ ~IsBuf(bp.bufferPool[bp.th[th].blk])))
       ELSE \/ PoolStore(PoolCur, bp.ch, [bp.th EXCEPT ![th].pc = "wait"], bp.taken)
            \/ /\ bp.th[th].waited
               /\ PoolStore(PoolCur, bp.ch,
                            [bp.th EXCEPT ![th] = [@ EXCEPT !.pc = "idle", !.res = "timeout"]],
                            bp.taken)

\* select: a token is received from availableCh
BmWake(th) ==
    /\ bp.th[th].pc = "wait"
    /\ bp.ch > 0
    /\ PoolStore(PoolCur, bp.ch - 1,
                 [bp.th EXCEPT ![th] = [@ EXCEPT !.pc = "try", !.waited = TRUE]], bp.taken)

\* select: time.After(remaining) fires while availableCh is empty
BmTimeout(th) ==
    /\ bp.th[th].pc = "wait"
    /\ bp.ch = 0
    /\ PoolStore(PoolCur, bp.ch,
                 [bp.th EXCEPT ![th] = [@ EXCEPT !.pc = "idle", !.res = "timeout"]], bp.taken)

\* BufferMgr.Unpin of a buffer the goroutine has pinned; when the pin count
\* reaches zero a token is sent unless the channel (capacity NumBuffs) is full.
ToZero(b) == bp.bufferPool[b].pins = 1

\* the goroutines' states after an Unpin of b by th
Unpinned(th, b) ==
    [o \in Pinners |->
        [bp.th[o] EXCEPT !.held = IF o = th THEN @ \ {b} ELSE @,
                         !.freed = IF ToZero(b)
                                   THEN bp.th[o].pc = "wait" \/ (bp.th[o].pc = "try" /\ @)
                                   ELSE @]]

\* BufferMgr.Unpin as it would be without the send on availableCh.
BmUnpinSilent(th, b) ==
    /\ bp.th[th].pc = "idle"
    /\ b \in bp.th[th].held
    /\ PoolStore(BmUnpin(PoolCur, b), bp.ch, Unpinned(th, b), bp.taken /\ ~ToZero(b))

BmUnpinOp(th, b) ==
    /\ bp.th[th].pc = "idle"
    /\ b \in bp.th[th].held
    /\ PoolStore(BmUnpin(PoolCur, b),
                 IF ToZero(b) /\ bp.ch < NumBuffs THEN bp.ch + 1 ELSE bp.ch,
                 Unpinned(th, b), bp.taken /\ ~ToZero(b))

\* ------------------------------------------------ BufferMgr with LRU list
\* NewBufferMgr(fm, LruBuffs) of the manager that keeps the LRU list itself.
\* Its callers use one *BlockId per block, so the pool is keyed by block. The
\* calls run one at a time under bm.mu; a Pin that finds no buffer and is not
\* helped by an Unpin before MaxTime is one call that returns the error. No
\* buffer is modified here, so no buffer is dirty and eviction flushes nothing.

\* moveToHead
MoveToHead(list, x) == <<x>> \o SelectSeq(list, LAMBDA y : y # x)

\* Buffer.Pin
LruPinBuf(s, x) == [s EXCEPT !.buf[x].pins = @ + 1, !.recent = MoveToHead(@, x)]

\* findAndEvictBuffer: the first unpinned buffer from lruTail (0: none)
FindAndEvictBuffer(s) ==
    LET un == SelectSeq(s.list, LAMBDA x : s.buf[x].pins = 0)
    IN IF un = <<>> THEN 0 ELSE un[Len(un)]

\* BufferMgr.AllocateBufferForBlock of the LRU manager
LruAllocate(s, b) ==
    IF s.pool[b] # 0
    THEN [LruPinBuf([s EXCEPT !.list = MoveToHead(@, s.pool[b])], s.pool[b])
             EXCEPT !.last = [op |-> "existing", buf |-> s.pool[b]]]
    ELSE IF s.numAvailable = 0 /\ FindAndEvictBuffer(s) = 0
    THEN [s EXCEPT !.last = [op |-> "nil", buf |-> 0]]
    ELSE [s EXCEPT !.pool = [c \in DOMAIN s.pool |->
                               IF c = b THEN Len(s.buf) + 1
                               ELSE IF s.numAvailable = 0
                                       /\ c = s.buf[FindAndEvictBuffer(s)].blk THEN 0
                               ELSE s.pool[c]],
                   !.buf = Append(@, [blk |-> b, pins |-> 1]),
                   !.list = <<Len(s.buf) + 1>> \o @,
                   !.recent = <<Len(s.buf) + 1>> \o @,
                   !.numAvailable = @ - 1,
                   !.last = IF s.numAvailable = 0
                            THEN [op |-> "evict", buf |-> FindAndEvictBuffer(s)]
                            ELSE [op |-> "alloc", buf |-> Len(s.buf) + 1]]

\* a call has been made: at most MaxBufs Buffer objects are created
LruCalled(s) ==
    /\ Len(s.buf) <= MaxBufs
    /\ lru' = [s EXCEPT !.calls = @ + 1]
    /\ Outside({"lru"})

\* BufferMgr.Pin (with Get for a resident block)
LruPin(b) ==
    /\ lru.calls < MaxLruCalls
    /\ lru.pool[b] # 0 => lru.buf[lru.pool[b]].pins < MaxLruPins
    /\ LruCalled(IF lru.pool[b] # 0
                 THEN [LruPinBuf(lru, lru.pool[b])
                          EXCEPT !.last = [op |-> "hit", buf |-> lru.pool[b]]]
                 ELSE IF lru.numAvailable > 0 THEN LruAllocate(lru, b)
                 ELSE [lru EXCEPT !.last = [op |-> "timeout", buf |-> 0]])

\* BufferMgr.Unpin of a buffer that is pinned
LruUnpin(x) ==
    /\ lru.calls < MaxLruCalls
    /\ x <= Len(lru.buf)
    /\ lru.buf[x].pins > 0
    /\ LruCalled([lru EXCEPT !.buf[x].pins = @ - 1,
                             !.numAvailable = IF lru.buf[x].pins = 1 THEN @ + 1 ELSE @,
                             !.last = [op |-> "unpin", buf |-> x]])

\* BufferMgr.AllocateBufferForBlock called directly
LruAllocateOp(b) ==
    /\ lru.calls < MaxLruCalls
    /\ lru.pool[b] # 0 => lru.buf[lru.pool[b]].pins < MaxLruPins
    /\ LruCalled(LruAllocate(lru, b))

\* ------------------------------------------------------- Clock eviction
\* InitClock(ClockCap, fm) with calls that fill, pin, unpin and evict frames.

\* Clock.evictLocked from the frame under the hand: start is startingHand,
\* pass the pass number, n the frames looked at so far. The victim stays in
\* its frame; only its entry of bufferPool is deleted. victim 0 is
\* ErrNoUnpinnedBuffers.
RECURSIVE evictLocked(_, _, _, _)
evictLocked(c, start, pass, n) ==
    LET i == c.hand + 1
        h == (c.hand + 1) % ClockCap
        skip == ~c.frames[i].used \/ c.frames[i].pins > 0
        clear == ~skip /\ pass = 0 /\ c.frames[i].ref
        c1 == [c EXCEPT !.hand = h, !.frames[i].ref = IF clear THEN FALSE ELSE @]
    IN IF skip \/ clear
       THEN IF h # start THEN evictLocked(c1, start, pass, n + 1)
            ELSE IF pass = 0 THEN evictLocked(c1, start, 1, n + 1)
            ELSE [c1 EXCEPT !.ret = [op |-> "evict", victim |-> 0, looked |-> n + 1]]
       ELSE [c1 EXCEPT !.frames[i].mapped = FALSE,
                       !.ret = [op |-> "evict", victim |-> i, looked |-> n + 1]]

\* Clock.AllocateBufferForBlock of a block that is not resident, while a
\* frame is empty (with no empty frame the new buffer stays outside the array)
ClkAllocate ==
    /\ \E i \in 1..ClockCap : ~clk.frames[i].used
    /\ LET i == CHOOSE i \in 1..ClockCap :
                    ~clk.frames[i].used /\ \A j \in 1..(i - 1) : clk.frames[j].used
       IN clk' = [clk EXCEPT !.frames[i] = [used |-> TRUE, pins |-> 1, ref |-> TRUE,
                                            mapped |-> TRUE, Dirty |-> FALSE],
                             !.ret = [op |-> "allocate", victim |-> 0, looked |-> 0]]
    /\ Outside({"clock"})

\* Clock.Get of the block held by frame i
ClkGet(i) ==
    /\ clk.frames[i].mapped
    /\ clk.frames[i].pins < MaxClkPins
    /\ clk' = [clk EXCEPT !.frames[i].pins = @ + 1, !.frames[i].ref = TRUE,
                          !.ret = [op |-> "get", victim |-> 0, looked |-> 0]]
    /\ Outside({"clock"})

\* Buffer.Unpin of the buffer in frame i
ClkUnpin(i) ==
    /\ clk.frames[i].pins > 0
    /\ clk' = [clk EXCEPT !.frames[i].pins = @ - 1,
                          !.ret = [op |-> "unpin", victim |-> 0, looked |-> 0]]
    /\ Outside({"clock"})

\* Buffer.MarkModified by a client that has the buffer of frame i pinned
ClkMarkModified(i) ==
    /\ clk.frames[i].pins > 0 /\ ~clk.frames[i].Dirty
    /\ clk' = [clk EXCEPT !.frames[i].Dirty = TRUE,
                          !.ret = [op |-> "modify", victim |-> 0, looked |-> 0]]
    /\ Outside({"clock"})

\* Clock.Evict as it would be with the second pass only.
ClkEvictOnePass ==
    /\ clk' = evictLocked(clk, clk.hand, 1, 0)
    /\ Outside({"clock"})

\* Clock.Evict
ClkEvict ==
    /\ clk' = evictLocked(clk, clk.hand, 0, 0)
    /\ Outside({"clock"})

Init ==
    /\ LET s == Open([b \in AllBlocks |-> <<>>], 0)
       IN /\ disk = s.disk
          /\ logSize = s.logSize
          /\ bufferPool = s.bufferPool
          /\ numAvailable = s.numAvailable
          /\ latestLSN = s.latestLSN
          /\ latestSavedLSN = s.latestSavedLSN
          /\ locks = s.locks
          /\ lTble = s.lTble
          /\ buffers = s.buffers
    /\ txState = [t \in Txs |-> "new"]
    /\ crashes = 0
    /\ hist = [t \in Txs |-> [ins |-> <<>>, ops |-> 0, epoch |-> 0, recovered |-> FALSE]]
    /\ ltVal = 0
    /\ thr = [th \in Threads |-> Idle]
    /\ cmgr = [mu |-> 0, locks |-> NewConcurrencyMgrLocks, lTble |-> NewLockTable]
    /\ cthr = [th \in CmThreads |-> [pc |-> "start"]]
    /\ cret = [op |-> "none", blk |-> TheBlk, res |-> "nil"]
    /\ kcell = [c |-> NotFound, data |-> <<>>, back |-> NotFound, read |-> FALSE]
    /\ spg = [page |-> NewSlottedPage, before |-> NewSlottedPage, op |-> "none"]
    /\ lg = [att |-> <<>>, appended |-> <<>>, calls |-> 0, last |-> [op |-> "none"],
             flushing |-> FALSE]
    /\ bp = [bufferPool |-> [b \in PoolBlocks |-> NoBuf], numAvailable |-> NumBuffs,
             ch |-> 0, calls |-> 0, taken |-> FALSE,
             th |-> [th \in Pinners |-> [pc |-> "idle", blk |-> 1, held |-> {}, res |-> "none",
                                          waited |-> FALSE, freed |-> FALSE]]]
    /\ lru = [pool |-> [b \in 1..NumLruBlocks |-> 0], buf |-> <<>>, list |-> <<>>,
              numAvailable |-> LruBuffs, recent |-> <<>>, calls |-> 0,
              last |-> [op |-> "none", buf |-> 0]]
    /\ clk = [frames |-> [i \in 1..ClockCap |->
                             [used |-> FALSE, pins |-> 0, ref |-> FALSE, mapped |-> FALSE,
                              Dirty |-> FALSE]],
              hand |-> 0, ret |-> [op |-> "none", victim |-> 0, looked |-> 0]]

Next ==
    \/ \E t \in Txs : Begin(t)
    \/ \E t \in Txs, b \in Blocks : Pin(t, b)
    \/ \E t \in Txs, b \in Blocks : UnPin(t, b)
    \/ \E t \in Txs, b \in Blocks, key \in Keys : FindCellOp(t, b, key)
    \/ \E t \in Txs, b \in Blocks, key \in Keys, val \in Values : InsertCellOp(t, b, key, val)
    \/ \E t \in Txs : Commit(t)
    \/ \E t \in Txs : Rollback(t)
    \/ \E t \in Txs : Recover(t)
    \/ Crash

Spec == Init /\ [][Next]_vars

\* A goroutine that has been woken is scheduled.
SpecLT ==
    Init /\ [][\/ \E th \in Threads : sLock(th)
               \/ \E th \in Threads : xLock(th)
               \/ \E th \in Threads : Resume(th)
               \/ \E th \in Threads : Tick(th)
               \/ \E th \in Threads : unlock(th)]_vars
         /\ \A th \in Threads : WF_vars(Resume(th))

SpecCM ==
    Init /\ [][\/ \E th \in CmThreads : CmLock(th)
               \/ \E th \in CmThreads : CmAcquire(th)
               \/ \E th \in CmThreads : CmReleaseOp(th)]_vars

SpecLocks ==
    Init /\ [][\/ \E b \in Blocks : SLockOp(b)
               \/ \E b \in Blocks : XLockOp(b)
               \/ ReleaseOp]_vars

SpecCell ==
    Init /\ [][\/ \E n \in 0..MaxKeyLen, id \in 0..MaxCellVal :
                      NewKeyCellOp([i \in 1..n |-> 6 + i], id)
               \/ \E n \in 0..MaxKeyLen : NewKVCellOp([i \in 1..n |-> 6 + i])
               \/ \E type \in INTEGER_TYPE..BYTES_TYPE, n \in 0..MaxCellVal : SetValueOp(type, n)
               \/ MarkDeletedOp
               \/ ToBytesOp
               \/ CellFromBytesOp]_vars

SpecPage ==
    Init /\ [][\/ \E kind \in {KEY_CELL, KV_CELL}, key \in 1..MaxPageKey, n \in 1..MaxCellVal :
                      PgInsertCell(kind, key, n)
               \/ \E slot \in 1..PageCap : PgDeleteCell(slot)
               \/ PgCompact]_vars

SpecLog ==
    Init /\ [][\/ LogAppend
               \/ \E i \in 1..MaxAppends : LogFlushLSN(i)
               \/ LogCheckpoint
               \/ LogIterate
               \/ IterFlushWrite
               \/ IterFlushSave]_vars

\* A goroutine in the loop of Pin is scheduled, and a select with a token in
\* the channel receives it.
SpecBM ==
    Init /\ [][\/ \E th \in Pinners, b \in PoolBlocks : BmCall(th, b)
               \/ \E th \in Pinners : BmTry(th)
               \/ \E th \in Pinners : BmWake(th)
               \/ \E th \in Pinners : BmTimeout(th)
               \/ \E th \in Pinners, b \in PoolBlocks : BmUnpinOp(th, b)]_vars
         /\ \A th \in Pinners : WF_vars(BmTry(th)) /\ WF_vars(BmWake(th))

SpecLRU ==
    Init /\ [][\/ \E b \in 1..NumLruBlocks : LruPin(b)
               \/ \E x \in 1..MaxBufs : LruUnpin(x)
               \/ \E b \in 1..NumLruBlocks : LruAllocateOp(b)]_vars

SpecClock ==
    Init /\ [][\/ ClkAllocate
               \/ \E i \in 1..ClockCap : ClkGet(i)
               \/ \E i \in 1..ClockCap : ClkUnpin(i)
               \/ \E i \in 1..ClockCap : ClkMarkModified(i)
               \/ ClkEvict]_vars

\* ------------------------------------------------------------- properties
\* What transaction t reads for a key of block b: Mgr.Pin, then Mgr.FindCell.
Found(s, b, key) == IF s.err THEN NotFound ELSE FindCell(s.bufferPool[b].contents, key)

Lookup(t, b, key) == Found(BlPin(Cur, t, b), b, key)

Wrote(t, b, key) == \E i \in 1..Len(hist[t].ins) : hist[t].ins[i].blk = b /\ hist[t].ins[i].key = key

\* t is the fresh transaction that ran recover() after the last restart
Recovered(t) ==
    /\ crashes > 0
    /\ Active(t)
    /\ hist[t].recovered
    /\ hist[t].epoch = crashes
    /\ hist[t].ops = 0

\* C1: once a transaction has run recover() after a crash, no data block on
\* disk holds a cell written by a transaction that was uncommitted at the crash.
C1_NoUncommittedOnDisk ==
    (\E t \in Txs : Recovered(t))
        => \A b \in Blocks : \A i \in 1..Len(disk[b]) : txState[disk[b][i].by] # "lost"

\* C2: a transaction inserts (k, v) with logging and commits; the store
\* crashes and is reopened; a new transaction runs recover(); its lookup of k
\* returns v.
C2_CommittedInsertReadBack ==
    \A u \in Txs, t \in Txs, b \in Blocks, key \in Keys, val \in Values :
        ( /\ txState[u] = "committed"
          /\ hist[u].epoch < crashes
          /\ Len(hist[u].ins) = 1
          /\ hist[u].ins[1].blk = b /\ hist[u].ins[1].key = key /\ hist[u].ins[1].val = val
          /\ \A w \in Txs \ {u} : ~Wrote(w, b, key)
          /\ Recovered(t) )
        => Lookup(t, b, key) # NotFound /\ Lookup(t, b, key).val = val

\* C3: whenever the Commit record of a transaction is on disk, no buffer still
\* holds a page that the transaction dirtied and that has not been written.
C3_BuffersBeforeCommitRecord ==
    \A i \in 1..Len(disk[LogBlk]) :
        (disk[LogBlk][i].val.op = COMMIT /\ hist[disk[LogBlk][i].val.owner].epoch = crashes)
            => \A b \in Blocks :
                   IsBuf(bufferPool[b]) => disk[LogBlk][i].val.owner \notin bufferPool[b].dirtiedBy

\* C4: no block has an exclusive holder together with any holder of another
\* transaction.
C4_ExclusiveExcludesOthers ==
    \A t \in Txs, u \in Txs, b \in Blocks :
        (t # u /\ locks[t][b] = "X") => locks[u][b] = "none"

\* C5: two-phase locking: a lock of a transaction is only given up (its
\* ledger entry removed, its table entry decreased towards zero) in a step in
\* which the transaction's commit or rollback runs (a crash, which destroys
\* the lock tables, is not an unlock).
C5_UnlockOnlyAtEnd ==
    [][\A t \in Txs, b \in Blocks :
          ( /\ crashes' = crashes
            /\ \/ locks[t][b] # "none" /\ locks'[t][b] = "none"
               \/ lTble[t][b] > 1 /\ lTble'[t][b] < lTble[t][b]
               \/ lTble[t][b] # 0 /\ lTble'[t][b] = 0 )
          => ( /\ txState[t] = "active"
               /\ txState'[t] \in {"committed", "rolledback", "failed"} )]_vars

\* a transaction that took an exclusive lock has committed and holds nothing
C5_Witness ==
    \E t \in Txs : /\ txState[t] = "committed"
                   /\ hist[t].ins # <<>>
                   /\ hist[t].epoch = crashes
                   /\ \A b \in Blocks : locks[t][b] = "none" /\ lTble[t][b] = 0

\* C6: Tx1 inserts (k, v1) and commits, Tx2 inserts (k, v2) and does not commit,
\* the store crashes; after recover() in a fresh Tx3 the cell of k is v1.
C6_RecoverKeepsCommittedValue ==
    \A u \in Txs, w \in Txs, t \in Txs, b \in Blocks, key \in Keys, v1 \in Values, v2 \in Values :
        ( /\ txState[u] = "committed" /\ txState[w] = "lost"
          /\ hist[u].epoch < crashes /\ hist[w].epoch < crashes
          /\ Len(hist[u].ins) = 1 /\ Len(hist[w].ins) = 1
          /\ hist[u].ins[1].blk = b /\ hist[u].ins[1].key = key /\ hist[u].ins[1].val = v1
          /\ hist[w].ins[1].blk = b /\ hist[w].ins[1].key = key /\ hist[w].ins[1].val = v2
          /\ v1 # v2
          /\ u \in hist[w].ins[1].after
          /\ Recovered(t) )
        => Lookup(t, b, key) # NotFound /\ Lookup(t, b, key).val = v1

\* C7: a transaction inserts (k, v1), then (k, v2), then rolls back: the cell
\* of k is absent, a lookup of k finds nothing.
C7_RollbackRemovesInserts ==
    \A t \in Txs, r \in Txs, b \in Blocks, key \in Keys :
        ( /\ txState[t] = "rolledback"
          /\ hist[t].epoch = crashes
          /\ Len(hist[t].ins) = 2
          /\ \A i \in 1..2 : hist[t].ins[i].blk = b /\ hist[t].ins[i].key = key
          /\ hist[t].ins[1].val # hist[t].ins[2].val
          /\ \A w \in Txs \ {t} : ~Wrote(w, b, key)
          /\ Active(r) )
        => Lookup(r, b, key) = NotFound

\* C8: once commit() or rollback() has returned, with or without an error, the
\* transaction holds no lock and has no buffer pinned.
C8_EndAlwaysFinalizes ==
    \A t \in Txs :
        (txState[t] \in {"committed", "rolledback", "failed"} /\ hist[t].epoch = crashes)
            => /\ \A b \in Blocks : locks[t][b] = "none"
               /\ buffers[t] = {}

\* C9: a goroutine waiting in xLock is woken by the unlock of the last other
\* holder: while it sleeps unsignalled, some other goroutine holds a lock.
C9_LastReleaseWakesWaiter ==
    \A th \in Threads :
        (thr[th].pc = "xWait" /\ ~thr[th].woken)
            => \E o \in Threads \ {th} : thr[o].held # "none"

\* C10: an sLock whose deadline passes while the block has been exclusively
\* locked all along returns the lock-timeout error.
C10_SLockTimesOut ==
    \A th \in Threads :
        (thr[th].pc = "sWait" /\ thr[th].overdue) ~> (thr[th].pc = "idle" /\ thr[th].res = "timeout")

\* C11: readers (SLock, hold, Release) and a writer (XLock, hold, Release) on
\* one block: no call returns an error and no goroutine is left blocked.
C11_ReadersWriterAllReturn ==
    \A th \in CmThreads : cthr[th].pc \notin {"failed", "wait"}

\* The records of the log block on disk
OnDisk == {disk[LogBlk][i].val : i \in 1..Len(disk[LogBlk])}

\* C12: when FlushLSN(L) has returned, every record appended with an LSN <= L
\* is in the log on disk.
C12_FlushLSNWritesUpTo ==
    lg.last.op = "flushlsn"
        => \A i \in 1..Len(lg.appended) :
               lg.appended[i].lsn <= lg.last.lsn => lg.appended[i].rec \in OnDisk

\* C13: the LSNs returned by the appends that succeeded are strictly
\* increasing in the order of the appends (so no two are equal).
C13_LSNsStrictlyIncrease ==
    \A i \in 1..Len(lg.appended), j \in 1..Len(lg.appended) :
        i < j => lg.appended[i].lsn < lg.appended[j].lsn

\* several appends have returned, with flushes in between
C13_Witness ==
    /\ Len(lg.appended) >= 3
    /\ lg.calls >= 1

\* C14: after append(r1), ..., append(rn), for any n, iterating the log yields
\* rn, ..., r1.
C14_IterateNewestFirst ==
    lg.last.op = "iterate" => (lg.last.ok /\ lg.last.recs = Reverse(lg.att))

\* C15: an append does not fail, also when it finds the log page full.
C15_FullPageAppendSucceeds ==
    lg.last.op = "append" => lg.last.ok

\* the frames of the pool whose buffer is pinned
PinnedFrames ==
    {b \in PoolBlocks : /\ IsBuf(bp.bufferPool[b])
                        /\ bp.bufferPool[b].inFrames
                        /\ bp.bufferPool[b].pins > 0}

\* C16: Available() is the number of frames with pin count zero.
C16_AvailableCountsUnpinnedFrames ==
    bp.numAvailable = NumBuffs - Cardinality(PinnedFrames)

\* C17: a round of Pin for a block that is not resident, made while all
\* NumBuffs frames are pinned, does not return a buffer and leaves the pool as
\* it was (the call waits and then returns the timeout error).
C17_FullPoolPinTimesOut ==
    [][\A th \in Pinners :
          (/\ bp.th[th].pc = "try"
           /\ bp'.th[th].pc # "try"
           /\ Cardinality(PinnedFrames) = NumBuffs
           /\ ~IsBuf(bp.bufferPool[bp.th[th].blk]))
          => (/\ bp'.bufferPool = bp.bufferPool
              /\ bp'.th[th].res # "ok")]_vars

\* a Pin that was in the select when a buffer was unpinned to zero has returned it
WaiterServed == \E o \in Pinners : bp.th[o].freed /\ bp.th[o].res = "ok"

\* C18 as stated: when a buffer is unpinned to pin count zero while Pin calls
\* are in the select (before their deadline), one of those calls returns a
\* buffer.
C18_UnpinServesAWaiter ==
    \A th \in Pinners : (bp.th[th].pc = "wait" /\ bp.th[th].freed) ~> WaiterServed

\* C18: the token of the unpin is not lost: one of the waiting calls returns a
\* buffer unless a Pin that was not waiting at the unpin allocates first.
C18_UnpinServesAWaiterOrNewcomer ==
    \A th \in Pinners :
        (bp.th[th].pc = "wait" /\ bp.th[th].freed) ~> (WaiterServed \/ bp.taken)

C18_Witness ==
    \E o \in Pinners : bp.th[o].freed /\ bp.th[o].waited /\ bp.th[o].res = "ok" /\ ~bp.taken

\* the buffer that is bound to its block in the pool
Resident(s, x) == s.pool[s.buf[x].blk] = x

LruOldest(s) ==
    LET un == SelectSeq(s.recent, LAMBDA x : s.buf[x].pins = 0 /\ Resident(s, x))
    IN IF un = <<>> THEN 0 ELSE un[Len(un)]

\* C20: an eviction takes the unpinned buffer of the pool whose latest Pin is
\* the oldest, and a Pin that hits a resident buffer puts it at the head of
\* the LRU list.
C20_EvictsLeastRecentlyPinned ==
    [][lru'.calls # lru.calls
       => /\ lru'.last.op = "evict" => lru'.last.buf = LruOldest(lru)
          /\ lru'.last.op = "hit" => Head(lru'.list) = lru'.last.buf]_vars

C22_TxIdsUniqueMonotonic ==
    \A t, u \in Txs :
        (t < u /\ txState[t] # "new" /\ txState[u] # "new") => TxNum(t) < TxNum(u)

\* C23: for a transaction that holds X on a block, SLock and XLock on that
\* block return nil and change neither the ledger nor the lock table; the same
\* for SLock on a block it holds in S.
C23_DoubleLockIdempotent ==
    LET Same(r) == ~r.err /\ ~r.stop /\ r.locks = locks /\ r.lTble = lTble
    IN \A t \in Txs, b \in Blocks :
           /\ (Active(t) /\ locks[t][b] = "X")
                  => (Same(CmSLock(Cur, t, b)) /\ Same(CmXLock(Cur, t, b)))
           /\ (Active(t) /\ locks[t][b] = "S") => Same(CmSLock(Cur, t, b))

\* C24: when Release has returned, the ledger is empty and the lock table of
\* the transaction has no entry.
C24_ReleaseClearsLocks ==
    cret.op = "Release"
    => \A b \in Blocks : cmgr.locks[b] = "none" /\ cmgr.lTble[b] = 0

C26_SlotsStrictlySorted ==
    \A b \in Blocks :
        IsBuf(bufferPool[b])
        => LET p == bufferPool[b].contents
           IN \A i \in 1..(Len(p.slots) - 1) : CellAt(p, i).key < CellAt(p, i + 1).key

\* C27: an InsertCell of a key that a slot of the page already references
\* returns an error and leaves the page as it was.
C27_DuplicateKeyRejected ==
    [][\A t \in Txs, b \in Blocks, key \in Keys, val \in Values :
          (/\ InsertCellOp(t, b, key, val)
           /\ IsBuf(bufferPool[b])
           /\ FindCell(bufferPool[b].contents, key) # NotFound)
          => bufferPool'[b].contents = bufferPool[b].contents]_vars


\* C29: an InsertCell whose XLock returns an error changes nothing in the
\* buffer of the block.
C29_InsertNeedsExclusiveLock ==
    [][\A t \in Txs, b \in Blocks, key \in Keys, val \in Values :
          (InsertCellOp(t, b, key, val) /\ CmXLock(Cur, t, b).err)
          => bufferPool'[b] = bufferPool[b]]_vars

\* C30: when a data block on disk holds a cell that a running transaction
\* inserted with logging, the update record of that insert is in the log on
\* disk.
C30_WriteAheadRule ==
    \A t \in Txs : \A n \in 1..Len(hist[t].ins) :
        LET e == hist[t].ins[n]
        IN (/\ hist[t].epoch = crashes
            /\ \E i \in 1..Len(disk[e.blk]) :
                   disk[e.blk][i].key = e.key /\ disk[e.blk][i].by = t)
           => \E j \in 1..Len(disk[LogBlk]) :
                  /\ disk[LogBlk][j].val.op = UNIFIEDUPDATE
                  /\ disk[LogBlk][j].val.owner = t
                  /\ disk[LogBlk][j].val.blk = e.blk
                  /\ disk[LogBlk][j].val.key = e.key


\* C28: a cell read back from its serialized bytes has the flags, the key,
\* the value type and the value of the cell that was serialized.
C28_CellRoundTrip ==
    kcell.read
    => /\ kcell.back # NotFound
       /\ kcell.back.flags = kcell.c.flags
       /\ kcell.back.key = kcell.c.key
       /\ kcell.back.valueType = kcell.c.valueType
       /\ kcell.back.value = kcell.c.value


\* C31: when rollback() of a transaction whose calls were all logged inserts
\* has returned, every block holds, of that transaction, the cells it inserted
\* and one undo cell for each of them: it has undone each of its own update
\* records once and no record of another transaction.
C31_RollbackUndoesOwnRecords ==
    \A t \in Txs :
        (/\ txState[t] = "rolledback"
         /\ hist[t].epoch = crashes
         /\ hist[t].ops = Len(hist[t].ins))
        => \A b \in Blocks :
               LET logged == {i \in 1..Len(hist[t].ins) : hist[t].ins[i].blk = b}
                   data == IF IsBuf(bufferPool[b]) THEN bufferPool[b].contents.data ELSE <<>>
               IN Cardinality({i \in 1..Len(data) : data[i].by = t}) = 2 * Cardinality(logged)


C33_LockCallsReturn ==
    \A th \in Threads :
        (thr[th].pc \in {"sWait", "xWait"} /\ thr[th].expired) ~> (thr[th].pc = "idle")


\* C34: every record appended with an LSN up to latestSavedLSN is in the log
\* on disk.
C34_SavedLSNOnDisk ==
    \A i \in 1..Len(lg.appended) :
        lg.appended[i].lsn <= latestSavedLSN => lg.appended[i].rec \in OnDisk


\* C35: the buffer of the current log block is pinned at every moment: its
\* pin count is at least 1.
C35_LogBufferStaysPinned ==
    IsBuf(bufferPool[LogBlk]) /\ bufferPool[LogBlk].pins >= 1


\* C36: when the scan of a rollback or of a recovery that has no update
\* record to undo returns, the pin that its iterator took on the log block
\* has been given back (the pin count is the one Flush left) and the pool's
\* available count is what it was before the scan.
C36_ScanGivesItsPinsBack ==
    \A t \in Txs :
        (Active(t) /\ \A i \in 1..Len(IteratorRecords(Cur)) :
                          IteratorRecords(Cur)[i].op # UNIFIEDUPDATE)
        => /\ doRollback(Cur, t).bufferPool[LogBlk].pins = LmFlush(Cur).bufferPool[LogBlk].pins
           /\ doRecover(Cur, t).bufferPool[LogBlk].pins = LmFlush(Cur).bufferPool[LogBlk].pins
           /\ doRollback(Cur, t).numAvailable = numAvailable
           /\ doRecover(Cur, t).numAvailable = numAvailable

\* C37: at most NumBuffs buffers are bound to blocks, and each of them is in
\* the frame array that FlushAll and the eviction walk.
C37_AtMostNumBuffsFrames ==
    /\ Cardinality({b \in AllBlocks : IsBuf(bufferPool[b])}) <= NumBuffs
    /\ \A b \in AllBlocks : IsBuf(bufferPool[b]) => bufferPool[b].inFrames


\* C38: the buffer that an eviction has just taken from its block is not
\* dirty: its contents have been written to the block.
C38_EvictionWritesDirtyFrame ==
    (clk.ret.op = "evict" /\ clk.ret.victim # 0) => ~clk.frames[clk.ret.victim].Dirty


C40_CompactKeepsLiveCells ==
    spg.op = "compact"
    => /\ \A i \in 1..Len(spg.before.slots) :
              \E j \in 1..Len(spg.page.slots) : CellAt(spg.page, j) = CellAt(spg.before, i)
       /\ \A i, j \in 1..Len(spg.page.slots) :
              i < j => CellAt(spg.page, i).key <= CellAt(spg.page, j).key

====
